---- MODULE Spec2Model ----
(***************************************************************************)
(* Supply/demand zone detection (find_pattern) and retest scanning         *)
(* (the four find_retests functions) of src/patterns_logic.py, composed by *)
(* analyze_security_patterns.                                              *)
(*                                                                         *)
(* Prices are integers (ticks).  Thresholds are percentages: the float     *)
(* 0.65 is 65 over ThrDen.  candle_size is kept as an exact rational       *)
(* (num/den) so that the 1e-9 guard is the program's; every ratio test is  *)
(* an exact comparison of rationals.  For integer prices and percentage    *)
(* thresholds two distinct ratios differ by far more than one ulp, so the  *)
(* exact comparison agrees with the float comparison of the program.       *)
(* Data-frame rows are indexed from 0 as with df.iloc.                     *)
(***************************************************************************)
EXTENDS Integers, Sequences, FiniteSets, TLC

\* ---------------------------------------------------------------- bounds
MaxLen == 5
MaxLater == 2
MaxThrLen == 6
MaxBadLen == 4
MaxFairLen == 4
MaxPrice == 20

\* ------------------------------------------------------- program constants
ThrDen == 100
DefaultBodyThreshold == 65
DefaultWickThreshold == 35
EpsDen == 1000000000
DefaultMaxBases == 4

\* ------------------------------------------------------------------ inputs
Row(o, h, l, c) == [open |-> o, high |-> h, low |-> l, close |-> c]

\* Rally candles, drop candles, base candles (well-formed OHLC rows).
Rally == Row(6, 8, 6, 8)
Drop == Row(2, 2, 0, 0)
DropHigh == Row(8, 8, 6, 6)
BaseLow == Row(3, 5, 2, 3)
BaseHigh == Row(4, 6, 3, 5)

Rows == {Rally, Drop, DropHigh, BaseLow, BaseHigh}
CoreRows == {Rally, Drop, BaseLow}

Directions == {"bullish", "bearish", "rbd", "dbr"}

Thresholds == {[body |-> DefaultBodyThreshold, wick |-> DefaultWickThreshold]}

\* The date column: one distinct, increasing value per row.
DateOf(k) == <<"day", k>>

WithDate(r, k) ==
    [date |-> DateOf(k), open |-> r.open, high |-> r.high, low |-> r.low, close |-> r.close]

\* The data frames of the given lengths with rows drawn from R.
Frames(R, lens) ==
    UNION {{[k \in 0..(len - 1) |-> WithDate(f[k], k)] : f \in [0..(len - 1) -> R]}
           : len \in lens}

\* Every frame of up to MaxLen rows, and the frames one row longer (long
\* enough for two zones, or for a zone of four bases) over three of the rows.
GenericFrames == Frames(Rows, 0..MaxLen) \cup Frames(CoreRows, {MaxLen + 1})

\* The four candles of the documented rally-base-rally scenario (a flat candle,
\* a rally, a base, a rally), and candles that may follow them: one with its
\* low inside the zone, one with its low under it, one staying above it.
ScenarioRows ==
    <<Row(100, 100, 100, 100), Row(100, 111, 99, 110),
      Row(109, 110, 107, 108), Row(108, 119, 107, 118)>>
LaterInZone == Row(110, 112, 108, 111)
LaterBelow == Row(108, 110, 106, 107)
LaterAbove == Row(112, 114, 111, 113)
LaterRows == {LaterInZone, LaterBelow, LaterAbove}

ScenarioFrames ==
    UNION {{[k \in 0..(Len(ScenarioRows) + len - 1) |->
               WithDate(IF k < Len(ScenarioRows) THEN ScenarioRows[k + 1]
                        ELSE f[k - Len(ScenarioRows)], k)]
            : f \in [0..(len - 1) -> LaterRows]}
           : len \in 0..MaxLater}

DataFrames == GenericFrames \cup ScenarioFrames

\* Inputs with other thresholds of the documented ranges, body_threshold in
\* (0, 1] and wick_threshold in [0, 1): the defaults, equal thresholds, swapped
\* thresholds, and the ends of the ranges; and a rally whose body and wicks
\* are each half of its range.
HalfRally == Row(1, 3, 1, 2)
ThrRows == {Rally, BaseLow, HalfRally}
ThrFrames == Frames(ThrRows, 0..MaxThrLen)
RangeThresholds ==
    {[body |-> DefaultBodyThreshold, wick |-> DefaultWickThreshold],
     [body |-> 50, wick |-> 50],
     [body |-> DefaultWickThreshold, wick |-> DefaultBodyThreshold],
     [body |-> ThrDen, wick |-> 0]}

\* Inputs outside what the detector is documented to take: rows that are no
\* candles (open and close outside [low, high]; a base whose low is over its
\* open and close; high under low), max_bases of 0 and 5, and a
\* body_threshold of 0 or a wick_threshold of 1.
MalRally == Row(0, 6, 2, 8)
MalBase == Row(3, 7, 5, 3)
InvertedRally == Row(3, 4, 6, 7)
BadRows == {Rally, BaseLow, MalRally, MalBase, InvertedRally}
BadFrames == Frames(BadRows, 0..MaxBadLen)
AnyThresholds ==
    {[body |-> DefaultBodyThreshold, wick |-> DefaultWickThreshold],
     [body |-> 0, wick |-> DefaultWickThreshold],
     [body |-> DefaultBodyThreshold, wick |-> ThrDen]}

None == <<>>
Some(v) == <<v>>

\* What fetch_for does when called: it returns a data frame or raises.
FetchOutcomes == {"ok", "error"}

VARIABLES fetch, df, direction, max_bases, body_threshold, wick_threshold,
          pc, i, zones, zi, k, scan, results, ret, earlier, roles

vars == <<fetch, df, direction, max_bases, body_threshold, wick_threshold,
          pc, i, zones, zi, k, scan, results, ret, earlier, roles>>

inputs == <<fetch, df, direction, max_bases, body_threshold, wick_threshold>>

n == Cardinality(DOMAIN df)

\* ------------------------------------------------- candle helper functions
Max2(a, b) == IF a >= b THEN a ELSE b
Min2(a, b) == IF a <= b THEN a ELSE b
Abs(a) == IF a >= 0 THEN a ELSE -a

\* max(c.high - c.low, 1e-9) as the rational num/den.
candle_size(c) ==
    IF c.high - c.low > 0
    THEN [num |-> c.high - c.low, den |-> 1]
    ELSE [num |-> 1, den |-> EpsDen]

candle_body(c) == Abs(c.close - c.open)

wick_sum(c) == (c.high - Max2(c.open, c.close)) + (Min2(c.open, c.close) - c.low)

is_bullish(c) == c.close > c.open

is_bearish(c) == c.open > c.close

\* x / s < t / ThrDen, x / s > t / ThrDen for the rational s = num/den > 0:
\* x * den * ThrDen < t * num  <=>  x * ThrDen < ceil(t * num / den).
RatioLT(x, s, t) == x * ThrDen < -((-(t * s.num)) \div s.den)
RatioGT(x, s, t) == x * ThrDen > (t * s.num) \div s.den

RatioLE(x, s, t) == x * ThrDen <= (t * s.num) \div s.den
RatioGE(x, s, t) == x * ThrDen >= -((-(t * s.num)) \div s.den)

\* ------------------------------------------------------- pattern detection
\* The rejection test of a rally / drop impulse candle (lines 56, 60, 87, 91,
\* 122, 148, 177, 205).
\* Mutant: the rally test without `not is_bullish(c)`.
NotRallyImpulseAnyDirection(c, bt, wt) ==
    \/ RatioLT(candle_body(c), candle_size(c), bt)
    \/ RatioGT(wick_sum(c), candle_size(c), wt)

NotRallyImpulse(c, bt, wt) ==
    \/ ~is_bullish(c)
    \/ RatioLT(candle_body(c), candle_size(c), bt)
    \/ RatioGT(wick_sum(c), candle_size(c), wt)

NotDropImpulse(c, bt, wt) ==
    \/ ~is_bearish(c)
    \/ RatioLT(candle_body(c), candle_size(c), bt)
    \/ RatioGT(wick_sum(c), candle_size(c), wt)

\* Mutant: the base test with the thresholds not swapped.
IsBaseCandleUnswapped(cb, bt, wt) ==
    /\ RatioLE(candle_body(cb), candle_size(cb), bt)
    /\ RatioGE(wick_sum(cb), candle_size(cb), wt)

\* The base test: (b / s) <= wick_threshold and (w / s) >= body_threshold.
IsBaseCandle(cb, bt, wt) ==
    /\ RatioLE(candle_body(cb), candle_size(cb), wt)
    /\ RatioGE(wick_sum(cb), candle_size(cb), bt)

\* Mutant: the cap of the loop one short, len(bases) + 1 < max_bases.
RECURSIVE GatherBasesOneLess(_, _, _, _, _, _)
GatherBasesOneLess(d, j, cnt, mb, bt, wt) ==
    IF j < Cardinality(DOMAIN d) /\ cnt + 1 < mb
    THEN IF IsBaseCandle(d[j], bt, wt)
         THEN GatherBasesOneLess(d, j + 1, cnt + 1, mb, bt, wt)
         ELSE j
    ELSE j

\* Mutant: the cap of the loop off by one, len(bases) <= max_bases.
RECURSIVE GatherBasesOneMore(_, _, _, _, _, _)
GatherBasesOneMore(d, j, cnt, mb, bt, wt) ==
    IF j < Cardinality(DOMAIN d) /\ cnt <= mb
    THEN IF IsBaseCandle(d[j], bt, wt)
         THEN GatherBasesOneMore(d, j + 1, cnt + 1, mb, bt, wt)
         ELSE j
    ELSE j

\* Mutant: the loop without its `len(bases) < max_bases` cap.
RECURSIVE GatherBasesNoCap(_, _, _, _, _, _)
GatherBasesNoCap(d, j, cnt, mb, bt, wt) ==
    IF j < Cardinality(DOMAIN d)
    THEN IF IsBaseCandle(d[j], bt, wt)
         THEN GatherBasesNoCap(d, j + 1, cnt + 1, mb, bt, wt)
         ELSE j
    ELSE j

\* The inner while loop: the value of j when it exits, entered with j and
\* len(bases) = cnt.
RECURSIVE GatherBases(_, _, _, _, _, _)
GatherBases(d, j, cnt, mb, bt, wt) ==
    IF j < Cardinality(DOMAIN d) /\ cnt < mb
    THEN IF IsBaseCandle(d[j], bt, wt)
         THEN GatherBases(d, j + 1, cnt + 1, mb, bt, wt)
         ELSE j
    ELSE j

\* bases, as the list of rows i+1 .. j-1.
BasesOf(d, i0, j) == [m \in 1..(j - i0 - 1) |-> d[i0 + m]]

MaxOf(S) == CHOOSE x \in S : \A y \in S : x >= y
MinOf(S) == CHOOSE x \in S : \A y \in S : x <= y

\* Mutant: the demand zone's high taken from the highs, as for a supply zone.
DemandZoneHighFromHigh(bases) == MaxOf({bases[m].high : m \in DOMAIN bases})

DemandZoneHigh(bases) ==
    MaxOf({Max2(bases[m].open, bases[m].close) : m \in DOMAIN bases})
\* Mutant: the demand zone's low taken from the bodies, as for a supply zone.
DemandZoneLowFromBody(bases) ==
    MinOf({Min2(bases[m].open, bases[m].close) : m \in DOMAIN bases})

DemandZoneLow(bases) == MinOf({bases[m].low : m \in DOMAIN bases})
SupplyZoneHigh(bases) == MaxOf({bases[m].high : m \in DOMAIN bases})
SupplyZoneLow(bases) ==
    MinOf({Min2(bases[m].open, bases[m].close) : m \in DOMAIN bases})

\* Mutant: the zone dated by its last base, bases[-1].
ZoneDatedByLastBase(ptype, bases, zlow, zhigh, j) ==
    [pattern_type |-> ptype,
     date_base |-> bases[Len(bases)].date,
     zone_low |-> zlow,
     zone_high |-> zhigh,
     zone_height |-> Abs(zhigh - zlow),
     num_base_candles |-> Len(bases),
     continuation_idx |-> j]

Zone(ptype, bases, zlow, zhigh, j) ==
    [pattern_type |-> ptype,
     date_base |-> bases[1].date,
     zone_low |-> zlow,
     zone_high |-> zhigh,
     zone_height |-> Abs(zhigh - zlow),
     num_base_candles |-> Len(bases),
     continuation_idx |-> j]

\* Mutant: a rejection that leaves the index where it is.
RejectStays(zs, i0) == [zones |-> zs, i |-> i0]

Reject(zs, i0) == [zones |-> zs, i |-> i0 + 1]

\* Mutant: the sweep resumes at the continuation candle, i = j.
EmitResumeAtContinuation(zs, z, j) == [zones |-> Append(zs, z), i |-> j]

Emit(zs, z, j) == [zones |-> Append(zs, z), i |-> j + 1]

\* One iteration of the sweep for direction "bullish" / "bearish".
IterRbrDbd(d, dir, mb, bt, wt, zs, i0) ==
    LET c1 == d[i0]
        j == GatherBases(d, i0 + 1, 0, mb, bt, wt)
        bases == BasesOf(d, i0, j)
    IN  IF (dir = "bullish" /\ NotRallyImpulse(c1, bt, wt))
           \/ (dir # "bullish" /\ NotDropImpulse(c1, bt, wt))
        THEN Reject(zs, i0)
        ELSE IF Len(bases) = 0 \/ j >= Cardinality(DOMAIN d)
        THEN Reject(zs, i0)
        ELSE IF (dir = "bullish" /\ NotRallyImpulse(d[j], bt, wt))
                \/ (dir # "bullish" /\ NotDropImpulse(d[j], bt, wt))
        THEN Reject(zs, i0)
        ELSE IF dir = "bullish"
        THEN Emit(zs, Zone("RBR", bases, DemandZoneLow(bases),
                           DemandZoneHigh(bases), j), j)
        ELSE Emit(zs, Zone("DBD", bases, SupplyZoneLow(bases),
                           SupplyZoneHigh(bases), j), j)

\* Mutant: the reversal test of "rbd" with > in place of >=.
IterRbdNonStrict(d, mb, bt, wt, zs, i0) ==
    LET c1 == d[i0]
        j == GatherBases(d, i0 + 1, 0, mb, bt, wt)
        bases == BasesOf(d, i0, j)
    IN  IF NotRallyImpulse(c1, bt, wt)
        THEN Reject(zs, i0)
        ELSE IF Len(bases) = 0 \/ j >= Cardinality(DOMAIN d)
        THEN Reject(zs, i0)
        ELSE IF NotDropImpulse(d[j], bt, wt)
        THEN Reject(zs, i0)
        ELSE IF d[j].close > c1.low
        THEN Reject(zs, i0)
        ELSE Emit(zs, Zone("RBD", bases, SupplyZoneLow(bases),
                           SupplyZoneHigh(bases), j), j)

\* One iteration of the sweep for direction "rbd".
IterRbd(d, mb, bt, wt, zs, i0) ==
    LET c1 == d[i0]
        j == GatherBases(d, i0 + 1, 0, mb, bt, wt)
        bases == BasesOf(d, i0, j)
    IN  IF NotRallyImpulse(c1, bt, wt)
        THEN Reject(zs, i0)
        ELSE IF Len(bases) = 0 \/ j >= Cardinality(DOMAIN d)
        THEN Reject(zs, i0)
        ELSE IF NotDropImpulse(d[j], bt, wt)
        THEN Reject(zs, i0)
        ELSE IF d[j].close >= c1.low
        THEN Reject(zs, i0)
        ELSE Emit(zs, Zone("RBD", bases, SupplyZoneLow(bases),
                           SupplyZoneHigh(bases), j), j)

\* One iteration of the sweep for direction "dbr".
IterDbr(d, mb, bt, wt, zs, i0) ==
    LET c1 == d[i0]
        j == GatherBases(d, i0 + 1, 0, mb, bt, wt)
        bases == BasesOf(d, i0, j)
    IN  IF NotDropImpulse(c1, bt, wt)
        THEN Reject(zs, i0)
        ELSE IF Len(bases) = 0 \/ j >= Cardinality(DOMAIN d)
        THEN Reject(zs, i0)
        ELSE IF NotRallyImpulse(d[j], bt, wt)
        THEN Reject(zs, i0)
        ELSE IF d[j].close <= c1.high
        THEN Reject(zs, i0)
        ELSE Emit(zs, Zone("DBR", bases, DemandZoneLow(bases),
                           DemandZoneHigh(bases), j), j)

\* The body of `while i < n - 2`: the branch the direction selects.
find_pattern_iter(d, dir, mb, bt, wt, zs, i0) ==
    IF dir \in {"bullish", "bearish"} THEN IterRbrDbd(d, dir, mb, bt, wt, zs, i0)
    ELSE IF dir = "rbd" THEN IterRbd(d, mb, bt, wt, zs, i0)
    ELSE IF dir = "dbr" THEN IterDbr(d, mb, bt, wt, zs, i0)
    ELSE Reject(zs, i0)

\* ----------------------------------------------------------------- retests
\* The per-zone locals of a retest scan as the for loop over the candles
\* begins: low, high, idx, signal = invalid = False, price = date = None.
BeginScan(zone) ==
    [low |-> zone.zone_low, high |-> zone.zone_high, idx |-> zone.continuation_idx,
     signal |-> FALSE, invalid |-> FALSE, price |-> None, date |-> None]

IdleScan ==
    [low |-> 0, high |-> 0, idx |-> 0,
     signal |-> FALSE, invalid |-> FALSE, price |-> None, date |-> None]

\* Mutant: the signal recorded on every touch (no `not signal`).
find_retests_rbr_every_touch(st, c) ==
    LET s1 == IF st.low <= c.low /\ c.low <= st.high
              THEN [st EXCEPT !.signal = TRUE, !.price = Some(c.low), !.date = Some(c.date)]
              ELSE st
    IN  IF c.low < st.low THEN [s1 EXCEPT !.invalid = TRUE] ELSE s1

\* Mutant: the break test as an elif of the touch test's candle, skipped once
\* a signal is recorded.
find_retests_rbr_no_break_after_signal(st, c) ==
    LET s1 == IF ~st.signal /\ st.low <= c.low /\ c.low <= st.high
              THEN [st EXCEPT !.signal = TRUE, !.price = Some(c.low), !.date = Some(c.date)]
              ELSE st
    IN  IF c.low < st.low /\ ~st.signal THEN [s1 EXCEPT !.invalid = TRUE] ELSE s1

\* Mutant: the break taken on high >= zone_high.
find_retests_dbd_break_on_equal(st, c) ==
    LET s1 == IF ~st.signal /\ st.low <= c.high /\ c.high <= st.high
              THEN [st EXCEPT !.signal = TRUE, !.price = Some(c.high), !.date = Some(c.date)]
              ELSE st
    IN  IF c.high >= st.high THEN [s1 EXCEPT !.invalid = TRUE] ELSE s1

\* Mutant: the supply scan testing the candle's low, as the demand scan does.
find_retests_rbd_on_low(st, c) ==
    LET s1 == IF ~st.signal /\ st.low <= c.low /\ c.low <= st.high
              THEN [st EXCEPT !.signal = TRUE, !.price = Some(c.low), !.date = Some(c.date)]
              ELSE st
    IN  IF c.high > st.high THEN [s1 EXCEPT !.invalid = TRUE] ELSE s1

\* Mutant: the lower bound of the touch test exclusive.
find_retests_dbr_exclusive_low(st, c) ==
    LET s1 == IF ~st.signal /\ st.low < c.low /\ c.low <= st.high
              THEN [st EXCEPT !.signal = TRUE, !.price = Some(c.low), !.date = Some(c.date)]
              ELSE st
    IN  IF c.low < st.low THEN [s1 EXCEPT !.invalid = TRUE] ELSE s1

\* The loop body of each retest function on candle c; invalid = TRUE is the
\* break.
find_retests_rbr(st, c) ==
    LET s1 == IF ~st.signal /\ st.low <= c.low /\ c.low <= st.high
              THEN [st EXCEPT !.signal = TRUE, !.price = Some(c.low), !.date = Some(c.date)]
              ELSE st
    IN  IF c.low < st.low THEN [s1 EXCEPT !.invalid = TRUE] ELSE s1

\* Mutant: a supply signal on any high at or above zone_low.
find_retests_dbd_signal_above(st, c) ==
    LET s1 == IF ~st.signal /\ st.low <= c.high
              THEN [st EXCEPT !.signal = TRUE, !.price = Some(c.high), !.date = Some(c.date)]
              ELSE st
    IN  IF c.high > st.high THEN [s1 EXCEPT !.invalid = TRUE] ELSE s1

find_retests_dbd(st, c) ==
    LET s1 == IF ~st.signal /\ st.low <= c.high /\ c.high <= st.high
              THEN [st EXCEPT !.signal = TRUE, !.price = Some(c.high), !.date = Some(c.date)]
              ELSE st
    IN  IF c.high > st.high THEN [s1 EXCEPT !.invalid = TRUE] ELSE s1

find_retests_rbd(st, c) ==
    LET s1 == IF ~st.signal /\ st.low <= c.high /\ c.high <= st.high
              THEN [st EXCEPT !.signal = TRUE, !.price = Some(c.high), !.date = Some(c.date)]
              ELSE st
    IN  IF c.high > st.high THEN [s1 EXCEPT !.invalid = TRUE] ELSE s1

find_retests_dbr(st, c) ==
    LET s1 == IF ~st.signal /\ st.low <= c.low /\ c.low <= st.high
              THEN [st EXCEPT !.signal = TRUE, !.price = Some(c.low), !.date = Some(c.date)]
              ELSE st
    IN  IF c.low < st.low THEN [s1 EXCEPT !.invalid = TRUE] ELSE s1

\* The retest function analyze_security_patterns selects for the direction.
RetestStep(dir, st, c) ==
    IF dir = "bullish" THEN find_retests_rbr(st, c)
    ELSE IF dir = "bearish" THEN find_retests_dbd(st, c)
    ELSE IF dir = "rbd" THEN find_retests_rbd(st, c)
    ELSE find_retests_dbr(st, c)

\* z = zone.to_dict(); z.update({...}): the record appended to results.
BuyRecord(zone, st) ==
    [pattern_type |-> zone.pattern_type, date_base |-> zone.date_base,
     zone_low |-> zone.zone_low, zone_high |-> zone.zone_high,
     zone_height |-> zone.zone_height,
     num_base_candles |-> zone.num_base_candles,
     continuation_idx |-> zone.continuation_idx,
     buy_signal |-> st.signal, buy_price |-> st.price,
     retest_date |-> st.date, invalidated |-> st.invalid]

SellRecord(zone, st) ==
    [pattern_type |-> zone.pattern_type, date_base |-> zone.date_base,
     zone_low |-> zone.zone_low, zone_high |-> zone.zone_high,
     zone_height |-> zone.zone_height,
     num_base_candles |-> zone.num_base_candles,
     continuation_idx |-> zone.continuation_idx,
     sell_signal |-> st.signal, sell_price |-> st.price,
     retest_date |-> st.date, invalidated |-> st.invalid]

\* Mutant: the scan picked by the first impulse of the variant.
RetestRecordByFirstImpulse(dir, zone, st) ==
    IF dir \in {"bullish", "rbd"} THEN BuyRecord(zone, st) ELSE SellRecord(zone, st)

RetestRecord(dir, zone, st) ==
    IF dir \in {"bullish", "dbr"} THEN BuyRecord(zone, st) ELSE SellRecord(zone, st)

\* ------------------------------------------------------------ entry wrapper
\* What the caller of analyze_security_patterns gets: nothing yet, a returned
\* pair (df or None, retests), or an exception raised to it.
Running == [kind |-> "running"]
Returned(d, r) == [kind |-> "return", df |-> d, retests |-> r]
Raised(e) == [kind |-> "raise", error |-> e]

\* except Exception as e: print(...); return None, pd.DataFrame().
OnException(e) == Returned(None, <<>>)

\* ------------------------------------------------------------- state machine
\* analyze_security_patterns is called with a security whose fetch gives one
\* of the frames (or fails), a direction, max_bases and thresholds.
InitWith(frames, mbs, thrs) ==
    /\ \/ fetch = "ok" /\ df \in frames
       \/ fetch = "error" /\ df = <<>>
    /\ direction \in Directions
    /\ max_bases \in mbs
    /\ \E t \in thrs : body_threshold = t.body /\ wick_threshold = t.wick
    /\ pc = "fetch"
    /\ i = 0
    /\ zones = <<>>
    /\ zi = 0
    /\ k = 0
    /\ scan = IdleScan
    /\ results = <<>>
    /\ ret = Running
    /\ earlier = None
    /\ roles = None

Init == InitWith(DataFrames, 1..DefaultMaxBases, Thresholds)

\* df = fetch_for(security_id) inside the try, and the test for no data.
FetchFor ==
    /\ pc = "fetch"
    /\ IF fetch = "error"
       THEN pc' = "done" /\ ret' = OnException("RuntimeError")
       ELSE IF n = 0
       THEN pc' = "done" /\ ret' = Returned(None, <<>>)
       ELSE pc' = "detect" /\ ret' = ret
    /\ UNCHANGED <<inputs, earlier, roles, i, zones, zi, k, scan, results>>

\* One iteration of the while loop of find_pattern.
SweepStep ==
    /\ pc = "detect"
    /\ i < n - 2
    /\ LET r == find_pattern_iter(df, direction, max_bases, body_threshold,
                                  wick_threshold, zones, i)
       IN  zones' = r.zones /\ i' = r.i
    /\ UNCHANGED <<inputs, earlier, roles, pc, zi, k, scan, results, ret>>

\* find_pattern returns; analyze_security_patterns returns at once when there
\* is no zone, and otherwise enters the retest function's loop over the zones.
SweepDone ==
    /\ pc = "detect"
    /\ ~(i < n - 2)
    /\ IF zones = <<>>
       THEN /\ pc' = "done"
            /\ ret' = Returned(Some(df), <<>>)
            /\ UNCHANGED <<zi, k, scan>>
       ELSE /\ pc' = "scan"
            /\ zi' = 1
            /\ scan' = BeginScan(zones[1])
            /\ k' = zones[1].continuation_idx + 1
            /\ ret' = ret
    /\ UNCHANGED <<inputs, earlier, roles, i, zones, results>>

\* Mutant: the candle loop without its break.
ScanCandleNoBreak ==
    /\ pc = "scan"
    /\ k < n
    /\ scan' = RetestStep(direction, scan, df[k])
    /\ k' = k + 1
    /\ UNCHANGED <<inputs, earlier, roles, pc, i, zones, zi, results, ret>>

\* One iteration of `for i in range(idx + 1, n)`.
ScanCandle ==
    /\ pc = "scan"
    /\ k < n
    /\ ~scan.invalid
    /\ scan' = RetestStep(direction, scan, df[k])
    /\ k' = IF scan'.invalid THEN k ELSE k + 1
    /\ UNCHANGED <<inputs, earlier, roles, pc, i, zones, zi, results, ret>>

\* The candle loop is over (range exhausted or break): the record is appended
\* and the zone loop moves on, or the retest function returns.
FinishScan ==
    /\ pc = "scan"
    /\ (k >= n \/ scan.invalid)
    /\ results' = Append(results, RetestRecord(direction, zones[zi], scan))
    /\ IF zi < Len(zones)
       THEN /\ zi' = zi + 1
            /\ scan' = BeginScan(zones[zi + 1])
            /\ k' = zones[zi + 1].continuation_idx + 1
            /\ pc' = "scan"
            /\ ret' = ret
       ELSE /\ pc' = "done"
            /\ ret' = Returned(Some(df), results')
            /\ UNCHANGED <<zi, k, scan>>
    /\ UNCHANGED <<inputs, earlier, roles, i, zones>>

Next == FetchFor \/ SweepStep \/ SweepDone \/ ScanCandle \/ FinishScan

Spec == Init /\ [][Next]_vars

\* The call runs on as long as it has a step to take: it is one sequential
\* function, nothing else is scheduled.
InitFair == InitWith(Frames(Rows, 0..MaxFairLen), {1, DefaultMaxBases}, Thresholds)
SpecFair == InitFair /\ [][Next]_vars /\ WF_vars(Next)

\* A second call after the first has returned, as the application makes on its
\* next click: on the same frame or on the scenario frame, in the same
\* direction or bullish. The call starts from the locals the code sets up;
\* `earlier` keeps what the first call was given and the zones it detected.
ScenarioFrame ==
    [x \in 0..(Len(ScenarioRows) - 1) |-> WithDate(ScenarioRows[x + 1], x)]

\* Mutant: `zones` living on between calls, as a module-level list would.
SecondRunKeepsZones ==
    /\ pc = "done"
    /\ earlier = None
    /\ earlier' = Some([df |-> df, direction |-> direction, zones |-> zones])
    /\ df' \in (IF fetch = "ok" THEN {df, ScenarioFrame} ELSE {df})
    /\ direction' \in {direction, "bullish"}
    /\ pc' = "fetch"
    /\ i' = 0
    /\ zi' = 0
    /\ k' = 0
    /\ scan' = IdleScan
    /\ results' = <<>>
    /\ ret' = Running
    /\ UNCHANGED <<fetch, max_bases, body_threshold, wick_threshold, zones, roles>>

SecondRun ==
    /\ pc = "done"
    /\ earlier = None
    /\ earlier' = Some([df |-> df, direction |-> direction, zones |-> zones])
    /\ df' \in (IF fetch = "ok" THEN {df, ScenarioFrame} ELSE {df})
    /\ direction' \in {direction, "bullish"}
    /\ pc' = "fetch"
    /\ i' = 0
    /\ zones' = <<>>
    /\ zi' = 0
    /\ k' = 0
    /\ scan' = IdleScan
    /\ results' = <<>>
    /\ ret' = Running
    /\ UNCHANGED <<fetch, max_bases, body_threshold, wick_threshold, roles>>

NextTwice == Next \/ SecondRun
InitTwice ==
    InitWith(ScenarioFrames \cup Frames(CoreRows, 0..MaxLen), {DefaultMaxBases},
             Thresholds)
SpecTwice == InitTwice /\ [][NextTwice]_vars

\* The tests find_pattern makes on a row, applied to one row on their own:
\* every well-formed candle with prices in 0..MaxPrice, at the default
\* thresholds. `roles` keeps what the tests say of the row.
Prices == 0..MaxPrice
Candles ==
    {c \in [open : Prices, high : Prices, low : Prices, close : Prices] :
        c.low <= Min2(c.open, c.close) /\ Max2(c.open, c.close) <= c.high}

InitClassify ==
    /\ fetch = "ok"
    /\ \E c \in Candles : df = [x \in {0} |-> WithDate(c, 0)]
    /\ direction = "bullish"
    /\ max_bases = DefaultMaxBases
    /\ body_threshold = DefaultBodyThreshold
    /\ wick_threshold = DefaultWickThreshold
    /\ pc = "classify"
    /\ i = 0
    /\ zones = <<>>
    /\ zi = 0
    /\ k = 0
    /\ scan = IdleScan
    /\ results = <<>>
    /\ ret = Running
    /\ earlier = None
    /\ roles = None

Classify ==
    /\ pc = "classify"
    /\ roles' = Some([rally |-> ~NotRallyImpulse(df[0], body_threshold, wick_threshold),
                      drop |-> ~NotDropImpulse(df[0], body_threshold, wick_threshold),
                      base |-> IsBaseCandle(df[0], body_threshold, wick_threshold),
                      size |-> candle_size(df[0])])
    /\ pc' = "classified"
    /\ UNCHANGED <<inputs, earlier, i, zones, zi, k, scan, results, ret>>

NextClassify == Classify
SpecClassify == InitClassify /\ [][NextClassify]_vars

\* The same program called with whatever a caller can pass.
InitBad == InitWith(BadFrames, 0..(DefaultMaxBases + 1), AnyThresholds)
SpecBad == InitBad /\ [][Next]_vars

\* The same program called with thresholds from all over their ranges.
InitThr == InitWith(ThrFrames, 1..DefaultMaxBases, RangeThresholds)
SpecThr == InitThr /\ [][Next]_vars

\* =================================================================== claims
\* What the claims speak of, stated on the data frame and the emitted records
\* alone (independently of the operators above).
ZoneSet == {zones[m] : m \in 1..Len(zones)}

\* The row index a date of the date column belongs to.
IdxOfDate(dt) == CHOOSE x \in DOMAIN df : df[x].date = dt

\* The rows a zone names as its bases, and its first impulse.
BaseIdxs(z) == (z.continuation_idx - z.num_base_candles)..(z.continuation_idx - 1)
FirstImpulseIdx(z) == z.continuation_idx - z.num_base_candles - 1

WellFormed(c) ==
    /\ c.low <= Min2(c.open, c.close)
    /\ Max2(c.open, c.close) <= c.high

Range(c) == c.high - c.low
Body(c) == Abs(c.close - c.open)
Wick(c) == (c.high - Max2(c.open, c.close)) + (Min2(c.open, c.close) - c.low)

\* Impulse and base candles of the candle classifier, for well-formed candles
\* of integer prices (a flat candle has body = wick = 0 and is neither, the
\* thresholds being positive).
RallyImpulse(c) ==
    /\ c.close > c.open
    /\ Body(c) * ThrDen >= body_threshold * Range(c)
    /\ Wick(c) * ThrDen <= wick_threshold * Range(c)

DropImpulse(c) ==
    /\ c.open > c.close
    /\ Body(c) * ThrDen >= body_threshold * Range(c)
    /\ Wick(c) * ThrDen <= wick_threshold * Range(c)

BaseCandle(c) ==
    /\ Range(c) > 0
    /\ Body(c) * ThrDen <= wick_threshold * Range(c)
    /\ Wick(c) * ThrDen >= body_threshold * Range(c)

FirstImpulse(c) == IF direction \in {"bullish", "rbd"} THEN RallyImpulse(c) ELSE DropImpulse(c)
SecondImpulse(c) == IF direction \in {"bullish", "dbr"} THEN RallyImpulse(c) ELSE DropImpulse(c)

\* The index right after the greedily collected bases of a first impulse at a.
GreedyEnd(a) ==
    CHOOSE j \in (a + 1)..n :
        /\ j <= a + 1 + max_bases
        /\ \A m \in (a + 1)..(j - 1) : BaseCandle(df[m])
        /\ (j = n \/ j = a + 1 + max_bases \/ ~BaseCandle(df[j]))

\* A first impulse at a, at least one base, and a second impulse after them.
Candidate(a) ==
    /\ a \in DOMAIN df
    /\ FirstImpulse(df[a])
    /\ GreedyEnd(a) > a + 1
    /\ GreedyEnd(a) < n
    /\ SecondImpulse(df[GreedyEnd(a)])

Emitting == pc = "detect" /\ Len(zones') = Len(zones) + 1
NewZone == zones'[Len(zones')]

\* C1: every emitted zone has zone_low <= zone_high (zone_height >= 0),
\* 1 <= num_base_candles <= max_bases, and a continuation_idx strictly greater
\* than the index of its first base candle.
C1_ZoneWellFormed ==
    \A z \in ZoneSet :
        /\ z.zone_low <= z.zone_high
        /\ z.zone_height >= 0
        /\ z.zone_height = z.zone_high - z.zone_low
        /\ 1 <= z.num_base_candles
        /\ z.num_base_candles <= max_bases
        /\ z.continuation_idx > IdxOfDate(z.date_base)

C1_Witness ==
    /\ max_bases = DefaultMaxBases
    /\ \E z \in ZoneSet : z.num_base_candles = max_bases
    /\ \A x \in DOMAIN df : WellFormed(df[x])

\* C2: zones of one run never overlap: the first impulse of each zone lies
\* strictly after the continuation_idx of the zone emitted before it.
C2_NoOverlap ==
    \A m \in 1..(Len(zones) - 1) :
        /\ IdxOfDate(zones[m + 1].date_base) - 1 > zones[m].continuation_idx
        /\ zones[m + 1].continuation_idx > zones[m].continuation_idx

C2_Witness == Len(zones) >= 2

\* C8: the bounds of every emitted zone are those of its base candles: for
\* RBR and DBR zone_high is the greatest max(open, close) and zone_low the
\* least low of the bases; for DBD and RBD zone_high is the greatest high and
\* zone_low the least min(open, close) of the bases.
C8_BoundsFromBases ==
    \A z \in ZoneSet :
        LET B == BaseIdxs(z)
            hi(b) == IF z.pattern_type \in {"RBR", "DBR"}
                     THEN Max2(df[b].open, df[b].close) ELSE df[b].high
            lo(b) == IF z.pattern_type \in {"RBR", "DBR"}
                     THEN df[b].low ELSE Min2(df[b].open, df[b].close)
        IN  /\ B # {}
            /\ \A b \in B : BaseCandle(df[b])
            /\ \A b \in B : lo(b) >= z.zone_low /\ hi(b) <= z.zone_high
            /\ \E b \in B : lo(b) = z.zone_low
            /\ \E b \in B : hi(b) = z.zone_high

\* A zone of two different bases whose bounds come from different bases and
\* differ from what the impulses around them would give.
C8_Witness ==
    \E z \in ZoneSet :
        /\ z.num_base_candles >= 2
        /\ \E a, b \in BaseIdxs(z) : a # b /\ df[a].low = z.zone_low /\ df[b].low # z.zone_low
        /\ df[z.continuation_idx].high > z.zone_high
        /\ df[FirstImpulseIdx(z)].low # z.zone_low

\* C9: a zone emitted for a first impulse at index i with k bases has
\* date_base = the date of candle i+1 and continuation_idx = i + k + 1 <= n-1.
C9_AnchorAndContinuation ==
    [][Emitting =>
          /\ NewZone.date_base = df[i + 1].date
          /\ NewZone.continuation_idx = i + NewZone.num_base_candles + 1
          /\ NewZone.continuation_idx = GreedyEnd(i)
          /\ NewZone.continuation_idx <= n - 1
          /\ FirstImpulse(df[i])
          /\ SecondImpulse(df[NewZone.continuation_idx])]_vars

C9_Witness ==
    \E z \in ZoneSet :
        /\ z.num_base_candles >= 2
        /\ FirstImpulseIdx(z) >= 1
        /\ z.continuation_idx = n - 1

\* C10: every RBD zone has its second impulse closing strictly below the
\* first impulse's low, every DBR zone has it closing strictly above the first
\* impulse's high; a candidate triplet that misses the bound (equality
\* included) emits nothing for that first-impulse index.
ReversalConfirmed(a) ==
    /\ direction = "rbd" => df[GreedyEnd(a)].close < df[a].low
    /\ direction = "dbr" => df[GreedyEnd(a)].close > df[a].high

C10_ReversalConfirmation ==
    /\ [](\A z \in ZoneSet :
            /\ z.pattern_type = "RBD" =>
                  df[z.continuation_idx].close < df[FirstImpulseIdx(z)].low
            /\ z.pattern_type = "DBR" =>
                  df[z.continuation_idx].close > df[FirstImpulseIdx(z)].high)
    /\ [][(pc = "detect" /\ i < n - 2 /\ Candidate(i) /\ ~ReversalConfirmed(i))
            => (zones' = zones /\ i' = i + 1)]_vars

\* The sweep has passed a reversal triplet whose close equals the bound, and
\* emitted nothing for it.
C10_Witness ==
    /\ direction \in {"rbd", "dbr"}
    /\ pc = "detect"
    /\ zones = <<>>
    /\ \E a \in 0..(i - 1) :
          /\ Candidate(a)
          /\ direction = "rbd" => df[GreedyEnd(a)].close = df[a].low
          /\ direction = "dbr" => df[GreedyEnd(a)].close = df[a].high

\* A reversal zone is emitted.
C10_ZoneEmitted == \E z \in ZoneSet : z.pattern_type \in {"RBD", "DBR"}

\* C11: in every emitted zone the first impulse and the candle at
\* continuation_idx are impulse candles (body ratio >= body_threshold, wick
\* ratio <= wick_threshold) of the direction the variant requires: RBR rally /
\* rally, DBD drop / drop, RBD rally / drop, DBR drop / rally; neither is a doji.
C11_ImpulsesOfVariant ==
    \A z \in ZoneSet :
        LET c1 == df[FirstImpulseIdx(z)]
            c2 == df[z.continuation_idx]
        IN  /\ z.pattern_type \in {"RBR", "RBD"} => RallyImpulse(c1)
            /\ z.pattern_type \in {"DBD", "DBR"} => DropImpulse(c1)
            /\ z.pattern_type \in {"RBR", "DBR"} => RallyImpulse(c2)
            /\ z.pattern_type \in {"DBD", "RBD"} => DropImpulse(c2)
            /\ c1.open # c1.close
            /\ c2.open # c2.close
            /\ z.pattern_type =
                  (CASE direction = "bullish" -> "RBR" [] direction = "bearish" -> "DBD"
                     [] direction = "rbd" -> "RBD" [] direction = "dbr" -> "DBR")

\* A reversal zone (impulses of opposite directions) in a frame where a doji
\* stood at an index the sweep tried as first impulse.
C11_Witness ==
    \E z \in ZoneSet :
        /\ z.pattern_type \in {"RBD", "DBR"}
        /\ \E x \in 0..(FirstImpulseIdx(z) - 1) : df[x].open = df[x].close

\* C12: on the four scenario candles with the default thresholds, direction
\* "bullish" emits exactly one zone: zone_low 107, zone_high 109, date_base
\* the date of the third candle, one base, continuation_idx 3.
ScenarioPrefix ==
    /\ n >= Len(ScenarioRows)
    /\ \A x \in 0..(Len(ScenarioRows) - 1) : df[x] = WithDate(ScenarioRows[x + 1], x)
ScenarioZone ==
    [pattern_type |-> "RBR", date_base |-> df[2].date, zone_low |-> 107,
     zone_high |-> 109, zone_height |-> 2, num_base_candles |-> 1,
     continuation_idx |-> 3]

C12_ScenarioRBR ==
    (/\ ScenarioPrefix
     /\ direction = "bullish"
     /\ body_threshold = DefaultBodyThreshold
     /\ wick_threshold = DefaultWickThreshold
     /\ pc \in {"scan", "done"})
    => /\ Len(zones) >= 1
       /\ zones[1] = ScenarioZone
       /\ n = Len(ScenarioRows) => zones = <<ScenarioZone>>

C12_Witness ==
    /\ ScenarioPrefix
    /\ n = Len(ScenarioRows)
    /\ direction = "bullish"
    /\ pc = "done"
    /\ zones = <<ScenarioZone>>

\* ------------------------------------------------------------ retest claims
Demand == direction \in {"bullish", "dbr"}
ResultSet == {results[m] : m \in 1..Len(results)}

\* The price of row x the scan of this direction looks at.
TestPrice(x) == IF Demand THEN df[x].low ELSE df[x].high
SignalOf(r) == IF Demand THEN r.buy_signal ELSE r.sell_signal
PriceOf(r) == IF Demand THEN r.buy_price ELSE r.sell_price

\* Rows after the continuation candle; rows that touch / breach zone r.
After(r) == (r.continuation_idx + 1)..(n - 1)
Touches(r, x) == r.zone_low <= TestPrice(x) /\ TestPrice(x) <= r.zone_high
Breaches(r, x) ==
    IF Demand THEN df[x].low < r.zone_low ELSE df[x].high > r.zone_high
BreachBefore(r, x) == \E b \in After(r) : b < x /\ Breaches(r, b)

\* The touching rows no breach precedes, and the first of them.
LiveTouches(r) == {x \in After(r) : Touches(r, x) /\ ~BreachBefore(r, x)}
FirstOf(S) == CHOOSE x \in S : \A y \in S : x <= y

\* What a result must say about the signal.
SignalAsFirstTouch(r) ==
    IF LiveTouches(r) # {}
    THEN /\ SignalOf(r)
         /\ PriceOf(r) = Some(TestPrice(FirstOf(LiveTouches(r))))
         /\ r.retest_date = Some(df[FirstOf(LiveTouches(r))].date)
    ELSE /\ ~SignalOf(r)
         /\ PriceOf(r) = None
         /\ r.retest_date = None

Recording == pc = "scan" /\ Len(results') = Len(results) + 1
NewResult == results'[Len(results')]

\* C3: once the signal is recorded its price and date never change on a later
\* step of the scan; the result carries the price and date of the first
\* touching candle even when later candles touch the zone too.
C3_FirstTouchWins ==
    /\ [][(pc = "scan" /\ scan.signal /\ pc' = "scan" /\ zi' = zi)
            => (scan'.signal /\ scan'.price = scan.price /\ scan'.date = scan.date)]_vars
    /\ [][Recording
            => (SignalOf(NewResult) = scan.signal /\ PriceOf(NewResult) = scan.price
                /\ NewResult.retest_date = scan.date)]_vars
    /\ [](\A r \in ResultSet :
            SignalOf(r) =>
               LET T == {x \in After(r) : Touches(r, x)}
               IN  /\ T # {}
                   /\ PriceOf(r) = Some(TestPrice(FirstOf(T)))
                   /\ r.retest_date = Some(df[FirstOf(T)].date))

\* A signal followed by a later touch at another price.
C3_Witness ==
    \E r \in ResultSet :
        /\ SignalOf(r)
        /\ \E x \in After(r) :
              /\ Touches(r, x)
              /\ Some(df[x].date) # r.retest_date
              /\ Some(TestPrice(x)) # PriceOf(r)

\* C4: invalidation is final: once the scan of a zone has set invalidated, no
\* later candle is examined and no signal is recorded; a touching candle after
\* the breaking candle never produces a signal.
C4_InvalidationFinal ==
    /\ [][(pc = "scan" /\ scan.invalid)
            => /\ Recording
               /\ NewResult.invalidated
               /\ SignalOf(NewResult) = scan.signal
               /\ PriceOf(NewResult) = scan.price
               /\ NewResult.retest_date = scan.date]_vars
    /\ [](\A r \in ResultSet :
            \A x \in After(r) :
               (Touches(r, x) /\ BreachBefore(r, x)) => r.retest_date # Some(df[x].date))

\* No signal although a candle touches the zone after the breaking candle.
C4_Witness ==
    \E r \in ResultSet :
        /\ r.invalidated
        /\ ~SignalOf(r)
        /\ \E x \in After(r) : Touches(r, x) /\ BreachBefore(r, x)

\* C5: the scan of a demand zone examines the candles after continuation_idx
\* in order, and buy_signal / buy_price / retest_date are those of the first
\* candle with zone_low <= low <= zone_high that no candle with low < zone_low
\* precedes; with no such candle buy_signal is false and price, date are empty.
C5_DemandSignal ==
    /\ [](Demand => \A r \in ResultSet : SignalAsFirstTouch(r))
    /\ []((Demand /\ pc = "scan") =>
            /\ scan.idx = zones[zi].continuation_idx
            /\ k > scan.idx
            /\ \A x \in (scan.idx + 1)..(k - 1) : ~Breaches(zones[zi], x))
    /\ [][(Demand /\ pc = "scan" /\ pc' = "scan" /\ zi' = zi)
            => (k' = k + 1 \/ (k' = k /\ scan'.invalid))]_vars

\* A buy signal on the lower bound of a demand zone, after a candle that
\* stayed above the zone.
C5_Witness ==
    /\ Demand
    /\ \E r \in ResultSet :
          /\ r.buy_signal
          /\ r.buy_price = Some(r.zone_low)
          /\ r.zone_low < r.zone_high
          /\ \E x \in After(r) : df[x].low > r.zone_high /\ x < IdxOfDate(r.retest_date[1])

\* C6: the scan of a supply zone mirrors the demand scan: the first candle
\* after continuation_idx with zone_low <= high <= zone_high sets sell_signal
\* with sell_price = its high, and a candle with high > zone_high sets
\* invalidated and ends the scan.
C6_SupplySignal ==
    /\ [](~Demand => \A r \in ResultSet : SignalAsFirstTouch(r))
    /\ [][(~Demand /\ pc = "scan" /\ ~scan.invalid /\ k < n /\ df[k].high > scan.high)
            => (scan'.invalid /\ k' = k /\ scan'.signal = scan.signal
                /\ results' = results)]_vars
    /\ [][(~Demand /\ pc = "scan" /\ scan.invalid) => Recording]_vars

C6_Witness ==
    /\ ~Demand
    /\ \E r \in ResultSet :
          /\ r.sell_signal
          /\ r.sell_price = Some(r.zone_high)
          /\ r.zone_low < r.zone_high
          /\ r.invalidated

\* C7: invalidated is true exactly when some candle after continuation_idx
\* breaches the far bound of the zone (low < zone_low for demand, high >
\* zone_high for supply), whether or not a signal was recorded before.
C7_InvalidatedIffBreach ==
    \A r \in ResultSet : r.invalidated <=> (\E x \in After(r) : Breaches(r, x))

\* The four final outcomes (signal, invalidated).
OutcomePending == \E r \in ResultSet : ~SignalOf(r) /\ ~r.invalidated
OutcomeSignalOnly == \E r \in ResultSet : SignalOf(r) /\ ~r.invalidated
OutcomeInvalidOnly == \E r \in ResultSet : ~SignalOf(r) /\ r.invalidated
OutcomeBoth == \E r \in ResultSet : SignalOf(r) /\ r.invalidated

\* A demand zone touched and then invalidated by a later candle.
C7_Witness ==
    /\ Demand
    /\ \E r \in ResultSet :
          /\ r.buy_signal
          /\ r.invalidated
          /\ \E x \in After(r) : Breaches(r, x) /\ x > IdxOfDate(r.retest_date[1])

\* C13: for the scenario's demand zone [107, 109] with continuation_idx 3, a
\* later candle with low 108 (the first to reach the zone) followed by a still
\* later candle with low 106 gives buy_signal, buy_price 108, retest_date the
\* date of the low-108 candle, and invalidated.
C13_ScenarioRetest ==
    (ScenarioPrefix /\ direction = "bullish") =>
        \A r \in ResultSet :
            (/\ r.zone_low = 107
             /\ r.zone_high = 109
             /\ r.continuation_idx = 3) =>
                \A a, b \in After(r) :
                    (/\ a < b
                     /\ df[a].low = 108
                     /\ df[b].low = 106
                     /\ \A x \in After(r) : x < a => df[x].low > 109)
                    => /\ r.buy_signal
                       /\ r.buy_price = Some(108)
                       /\ r.retest_date = Some(df[a].date)
                       /\ r.invalidated

C13_Witness ==
    /\ ScenarioPrefix
    /\ direction = "bullish"
    /\ pc = "done"
    /\ n = Len(ScenarioRows) + 2
    /\ df[Len(ScenarioRows)].low = 108
    /\ df[Len(ScenarioRows) + 1].low = 106
    /\ Len(results) = 1
    /\ results[1].buy_signal
    /\ results[1].invalidated

\* ------------------------------------------------ runs of bases (SpecThr)
\* The index right after the whole run of base candles that follows a.
RunEnd(a) ==
    CHOOSE j \in (a + 1)..n :
        /\ \A m \in (a + 1)..(j - 1) : BaseCandle(df[m])
        /\ (j = n \/ ~BaseCandle(df[j]))
RunOf(a) == (a + 1)..(RunEnd(a) - 1)

\* A first impulse followed by more than max_bases consecutive base candles.
LongRun(a) ==
    /\ a \in DOMAIN df
    /\ FirstImpulse(df[a])
    /\ Cardinality(RunOf(a)) > max_bases

\* Zone z is not the zone of the first impulse at a, and has no candle of the
\* run after a as first impulse or base.
ZoneAvoidsRun(z, a) ==
    /\ FirstImpulseIdx(z) \notin {a} \cup RunOf(a)
    /\ BaseIdxs(z) \cap RunOf(a) = {}
NoZoneFromRun(a) == \A z \in ZoneSet : ZoneAvoidsRun(z, a)

\* C14 as stated: for every max_bases in 1..4 and all thresholds of the
\* documented ranges, a first impulse followed by more than max_bases bases
\* (the candle after the max_bases-th base being no valid second impulse)
\* gives no zone from that run: none for the abandoned index and none that
\* starts later and has a candle of the run as first impulse or base.
C14_Original ==
    \A a \in DOMAIN df :
        (LongRun(a) /\ ~SecondImpulse(df[a + max_bases + 1])) =>
            \A z \in ZoneSet : FirstImpulseIdx(z) >= a => ZoneAvoidsRun(z, a)

\* C14, amended: the same whenever body_threshold > wick_threshold, which is
\* what keeps a candle from being both a base and an impulse; the candle after
\* the max_bases-th base is then no valid second impulse.
C14_LongRunNoZone ==
    body_threshold > wick_threshold =>
        \A a \in DOMAIN df :
            LongRun(a) => (~SecondImpulse(df[a + max_bases + 1]) /\ NoZoneFromRun(a))

\* The sweep is over a frame where a first impulse, a run of more than
\* max_bases bases (three at least) and an impulse follow each other, and the
\* run gave no zone.
C14_Witness ==
    /\ body_threshold > wick_threshold
    /\ pc = "done"
    /\ max_bases >= 2
    /\ \E a \in DOMAIN df :
          /\ LongRun(a)
          /\ RunEnd(a) < n
          /\ SecondImpulse(df[RunEnd(a)])
          /\ NoZoneFromRun(a)

C15_OtherInputsFirst ==
    /\ earlier # None
    /\ pc = "done"
    /\ df = ScenarioFrame
    /\ earlier[1].df # df
    /\ earlier[1].zones # <<>>
    /\ zones # <<>>

\* ------------------------------------------------------- failed fetch
\* C16: when the fetch fails, the call ends by raising an error to its caller
\* and not by returning.
C16_FetchErrorPropagates ==
    (pc = "done" /\ fetch = "error") => ret.kind = "raise"

\* What the caller gets after a failed fetch is what it gets when the fetch
\* gave no candles.
C16_ErrorLooksLikeNoData ==
    (pc = "done" /\ fetch = "error") => ret = Returned(None, <<>>)

\* ------------------------------------------------ invalid inputs (SpecBad)
\* The documented ranges: body_threshold in (0, 1], wick_threshold in [0, 1),
\* max_bases in 1..4.
ValidParams ==
    /\ body_threshold > 0
    /\ body_threshold <= ThrDen
    /\ wick_threshold >= 0
    /\ wick_threshold < ThrDen
    /\ max_bases \in 1..DefaultMaxBases

\* C17: with a threshold or max_bases outside its range the sweep does not
\* run: no candle is scanned and no zone is emitted.
C17_InvalidParamsRejected ==
    ~ValidParams => (i = 0 /\ zones = <<>>)

\* A zone detected with an argument outside its range.
C17_ZoneWithInvalidParams ==
    ~ValidParams /\ zones # <<>>

\* C18: no malformed candle is the impulse or a base of a zone, and no zone has
\* zone_low > zone_high.
C18_MalformedRejected ==
    ValidParams =>
        \A z \in ZoneSet :
            /\ \A x \in FirstImpulseIdx(z)..z.continuation_idx : WellFormed(df[x])
            /\ z.zone_low <= z.zone_high

\* A zone whose low is over its high.
C18_ZoneUpsideDown ==
    ValidParams /\ \E z \in ZoneSet : z.zone_low > z.zone_high

\* ------------------------------------------------- what the call returns
ZoneKeys ==
    {"pattern_type", "date_base", "zone_low", "zone_high", "zone_height",
     "num_base_candles", "continuation_idx"}
DemandKeys == {"buy_signal", "buy_price", "retest_date", "invalidated"}
SupplyKeys == {"sell_signal", "sell_price", "retest_date", "invalidated"}

\* Record rr is zone z with the outcome of the scan of its side added.
RecordOfZone(rr, z) ==
    /\ DOMAIN rr = ZoneKeys \cup
          (IF z.pattern_type \in {"RBR", "DBR"} THEN DemandKeys ELSE SupplyKeys)
    /\ \A f \in ZoneKeys : rr[f] = z[f]
    /\ Demand <=> z.pattern_type \in {"RBR", "DBR"}
    /\ SignalAsFirstTouch(rr)
    /\ rr.invalidated <=> (\E x \in After(rr) : Breaches(rr, x))

\* C19: after a fetch that worked the call returns no retests when the frame
\* is empty (nothing is detected or scanned) or when no zone is detected (no
\* scan is started); otherwise it returns one record per zone, in the order
\* of the zones, each the zone with signal, price, date and invalidated of the
\* demand scan (RBR, DBR) or the supply scan (DBD, RBD).
C19_OneRecordPerZone ==
    (pc = "done" /\ fetch = "ok") =>
        /\ ret.kind = "return"
        /\ n = 0 => (ret = Returned(None, <<>>) /\ i = 0 /\ zones = <<>>)
        /\ n > 0 => ret.df = Some(df)
        /\ zones = <<>> => (ret.retests = <<>> /\ zi = 0 /\ k = 0 /\ scan = IdleScan)
        /\ zones # <<>> =>
              /\ Len(ret.retests) = Len(zones)
              /\ \A m \in 1..Len(zones) : RecordOfZone(ret.retests[m], zones[m])

\* A call that returned the records of two zones, one of them with a signal.
C19_Witness ==
    /\ pc = "done"
    /\ ret.kind = "return"
    /\ Len(zones) = 2
    /\ Len(ret.retests) = 2
    /\ \E m \in 1..2 : SignalOf(ret.retests[m])
    /\ \E m \in 1..2 : ~ret.retests[m].invalidated

\* A call that returned no retests for a frame with candles and no zone.
C19_NoZone ==
    pc = "done" /\ n >= 3 /\ zones = <<>> /\ ret = Returned(Some(df), <<>>)

\* ------------------------------------------------ termination of the sweep
\* C20: the sweep terminates. An iteration runs only while i <= n - 3 and
\* strictly increases i: by exactly 1 when it rejects, to continuation_idx + 1
\* when it emits a zone; i never passes n; frames of fewer than 3 candles give
\* no zone; and every sweep that has started comes to its end.
C20_SweepTerminates ==
    /\ [][(pc = "detect" /\ pc' = "detect")
            => /\ i <= n - 3
               /\ \/ zones' = zones /\ i' = i + 1
                  \/ /\ Emitting
                     /\ i' = NewZone.continuation_idx + 1
                     /\ i' >= i + 3]_vars
    /\ [](pc = "detect" => i <= n)
    /\ [](n < 3 => zones = <<>>)
    /\ [](pc = "detect" => <>(pc # "detect" /\ i > n - 3))

\* The sweep has ended after an iteration that rejected and one that emitted
\* a zone and left i past the last candle.
C20_Witness ==
    /\ pc = "done"
    /\ zones # <<>>
    /\ FirstImpulseIdx(zones[1]) >= 1
    /\ i = zones[Len(zones)].continuation_idx + 1
    /\ i = n

\* ------------------------------------------------ completeness of the sweep
\* Row a was visited by the sweep: the index has passed it and it is no base
\* or continuation candle of a zone that started before it.
Visited(a) ==
    /\ a < i
    /\ a <= n - 3
    /\ \A z \in ZoneSet : ~(FirstImpulseIdx(z) < a /\ a <= z.continuation_idx)

\* C21: when the sweep is at a row that is a first impulse, followed by its
\* greedily collected bases (at least one, at most max_bases) and then by a
\* second impulse that meets the extra constraint of the variant, the step
\* emits the zone whose continuation_idx is the row of that second impulse;
\* so every such row the sweep has visited has its zone, also with
\* max_bases = 1.
C21_GreedyComplete ==
    /\ [][(pc = "detect" /\ pc' = "detect" /\ Candidate(i) /\ ReversalConfirmed(i))
            => /\ Emitting
               /\ NewZone.continuation_idx = GreedyEnd(i)
               /\ NewZone.num_base_candles = GreedyEnd(i) - i - 1
               /\ NewZone.num_base_candles \in 1..max_bases]_vars
    /\ [](pc # "fetch" =>
            \A a \in DOMAIN df :
                (Visited(a) /\ Candidate(a) /\ ReversalConfirmed(a)) =>
                    \E z \in ZoneSet :
                        /\ FirstImpulseIdx(z) = a
                        /\ z.continuation_idx = GreedyEnd(a))

\* With max_bases = 1 the sweep has rejected a row and then detected a
\* single-base triplet although a second base candle precedes the triplet.
C21_Witness ==
    /\ max_bases = 1
    /\ pc = "done"
    /\ \E z \in ZoneSet :
          /\ FirstImpulseIdx(z) >= 2
          /\ z.num_base_candles = 1
          /\ BaseCandle(df[FirstImpulseIdx(z) - 1])

\* ------------------------------------------- roles of a row (SpecClassify)
Flat(c) == c.open = c.high /\ c.high = c.low /\ c.low = c.close

\* C22: at the default thresholds no well-formed candle passes both an
\* impulse test and the base test; the range the ratios are divided by is
\* never zero; and a flat candle (range replaced by the epsilon) passes
\* neither an impulse test nor the base test.
C22_RolesDisjoint ==
    roles # None =>
        /\ ~((roles[1].rally \/ roles[1].drop) /\ roles[1].base)
        /\ ~(roles[1].rally /\ roles[1].drop)
        /\ roles[1].size.num > 0
        /\ roles[1].size.den > 0
        /\ Flat(df[0]) =>
              /\ roles[1].size = [num |-> 1, den |-> EpsDen]
              /\ ~roles[1].rally
              /\ ~roles[1].drop
              /\ ~roles[1].base

\* A flat candle has been through the tests and is neither impulse nor base.
C22_Witness ==
    /\ roles # None
    /\ Flat(df[0])
    /\ df[0].open > 0
    /\ ~roles[1].rally
    /\ ~roles[1].drop
    /\ ~roles[1].base

\* A rally with body/range = 0.65 and wicks/range = 0.35 is an impulse only; a
\* candle with body/range = 0.35 and wicks/range = 0.65 is a base only.
C22_BoundaryImpulse ==
    /\ roles # None
    /\ Body(df[0]) * ThrDen = DefaultBodyThreshold * Range(df[0])
    /\ Range(df[0]) > 0
    /\ roles[1].rally
    /\ ~roles[1].base
C22_BoundaryBase ==
    /\ roles # None
    /\ Body(df[0]) * ThrDen = DefaultWickThreshold * Range(df[0])
    /\ Range(df[0]) > 0
    /\ roles[1].base
    /\ ~roles[1].rally
    /\ ~roles[1].drop

\* ---------------------------------------- signal candle and breaking candle
\* The row of the signal of result r, and the rows that breach its zone.
SignalIdx(r) == IdxOfDate(r.retest_date[1])
BreachIdxs(r) == {x \in After(r) : Breaches(r, x)}

\* C23: in a result with the signal and invalidated both set, the candle of
\* the signal comes strictly before the candle that invalidated the zone, is
\* not itself a breaching candle, and both come after continuation_idx; no
\* step of a scan sets the signal and invalidated on the same candle.
C23_SignalBeforeBreak ==
    /\ [](\A r \in ResultSet :
            (SignalOf(r) /\ r.invalidated) =>
                /\ BreachIdxs(r) # {}
                /\ SignalIdx(r) > r.continuation_idx
                /\ SignalIdx(r) < FirstOf(BreachIdxs(r))
                /\ ~Breaches(r, SignalIdx(r)))
    /\ [][(pc = "scan" /\ pc' = "scan" /\ zi' = zi /\ ~scan.signal /\ scan'.signal)
            => ~scan'.invalid]_vars
    /\ [][(Recording /\ scan.signal /\ scan.invalid)
            => /\ k = FirstOf(BreachIdxs(NewResult))
               /\ zones[zi].continuation_idx < SignalIdx(NewResult)
               /\ SignalIdx(NewResult) < k]_vars

\* A result with a signal, then a candle that leaves the zone alone, then the
\* candle that invalidated it.
C23_Witness ==
    \E r \in ResultSet :
        /\ SignalOf(r)
        /\ r.invalidated
        /\ SignalIdx(r) + 1 < FirstOf(BreachIdxs(r))

====
